---- MODULE Spec2Model ----
(***************************************************************************)
(* Conversational workflow of the HR-automation client: the chat page      *)
(* (ChatPage.js) and the interview page (InterviewPage.js), mounted one at *)
(* a time by the router (App.js).  The external engine is the environment: *)
(* every dispatched request is eventually answered by a success payload    *)
(* drawn from a small set, or by a failure.                                *)
(*                                                                         *)
(* A step of the model is one run of a handler up to its first await, or   *)
(* the continuation of a handler after its await (React applies the state  *)
(* updates of one such run as one batch).                                  *)
(***************************************************************************)
EXTENDS Integers, Sequences, FiniteSets, TLC

\* Bounds of the model.
MaxRequests == 3    \* requests dispatched in one run of the model
MaxSessions == 2    \* page visits (sessions) in one run of the model
MaxCalls == 5       \* ResumePage requests dispatched in one run of the model

\* ------------------------------------------------------------------------
\* Values

\* An optional value (undefined / null in the source) is a sequence of
\* length 0 or 1.
Absent == <<>>
Some(x) == <<x>>
IsPresent(o) == Len(o) = 1
Get(o) == o[1]

\* Text is a sequence of characters; " " is the only white-space character.
Texts == {<<>>, <<" ">>, <<"x">>, <<"y", " ">>}

\* the texts typed into the position field
Positions == {<<>>, <<" ">>, <<"x">>}

RECURSIVE TrimStart(_)
TrimStart(s) ==
    IF s = <<>> THEN <<>>
    ELSE IF Head(s) = " " THEN TrimStart(Tail(s)) ELSE s

RECURSIVE TrimEnd(_)
TrimEnd(s) ==
    IF s = <<>> THEN <<>>
    ELSE IF s[Len(s)] = " " THEN TrimEnd(SubSeq(s, 1, Len(s) - 1)) ELSE s

\* String.prototype.trim
Trim(s) == TrimEnd(TrimStart(s))

\* faulty variant: the test is made without trim()
IsBlank_NoTrim(s) == s = <<>>

\* !s.trim() : the empty string is the only falsy string
IsBlank(s) == Trim(s) = <<>>

\* Truthiness of an optional boolean field (if (response.data.completed))
Truthy(o) == IsPresent(o) /\ Get(o) = TRUE

IsPrefix(s, t) == Len(s) <= Len(t) /\ SubSeq(t, 1, Len(s)) = s

\* ------------------------------------------------------------------------
\* Turns and engine payloads

ChatUserTurn(t) == [role |-> "user", message |-> t]

\* faulty variant: the assistant turn does not keep the engine's escalated
ChatAssistantTurn_NoEscalated(data) ==
    [role |-> "assistant", message |-> data.response,
     confidence |-> data.confidence, escalated |-> FALSE]

ChatAssistantTurn(data) ==
    [role |-> "assistant", message |-> data.response,
     confidence |-> data.confidence, escalated |-> data.escalated]

InterviewUserTurn(t) == [role |-> "user", content |-> t]

\* faulty variant: the engine's turn is stored with the user's role
InterviewAssistantTurn_AsUser(data) == [role |-> "user", content |-> data.response]

InterviewAssistantTurn(data) == [role |-> "assistant", content |-> data.response]

\* response.data of POST /chat
ChatReplies ==
    { [response |-> <<"a">>, confidence |-> 9, escalated |-> FALSE],
      [response |-> <<"h">>, confidence |-> 2, escalated |-> TRUE] }

\* response.data.messages of GET /chat-history/{session_id}: absent, or a
\* stored transcript of the session
HistoryPayloads ==
    { Absent,
      Some(<<>>),
      Some(<<ChatUserTurn(<<"x">>)>>),
      Some(<<ChatUserTurn(<<"x">>), ChatAssistantTurn([response |-> <<"a">>, confidence |-> 9, escalated |-> FALSE])>>) }

\* response.data of POST /interview: completed and score are optional; the
\* response text tells the payloads apart
InterviewReplies ==
    { [response |-> <<"q">>, completed |-> Absent, score |-> Absent],
      [response |-> <<"q">>, completed |-> Some(FALSE), score |-> Some(10)],
      [response |-> <<"f">>, completed |-> Some(TRUE), score |-> Some(82)],
      [response |-> <<"g">>, completed |-> Some(TRUE), score |-> Absent] }

\* ------------------------------------------------------------------------
\* State

VARIABLES
    page,            \* the route whose page component is mounted
    sessionId,       \* sessionId of the mounted page (0: no session page)
    messages,        \* transcript of the mounted page
    input,           \* text of the message box
    loading,         \* in-flight flag
    sessionStarted,  \* InterviewPage
    candidateName,   \* InterviewPage
    position,        \* InterviewPage
    completed,       \* InterviewPage
    evaluation,      \* InterviewPage: null or {score, feedback}
    net,             \* requests dispatched and not yet answered
    clock,           \* Date.now(), advanced by each page visit
    nextReq,         \* number of requests dispatched so far
    hydrations,      \* times the history replaced the transcript, this session
    sends,           \* user turns appended, this session
    startOks,        \* start responses applied, this session
    startedWith,     \* candidate_name and position of the applied start request
    lastEvent,       \* the last step
    resumes,         \* ResumePage: the catalog as last loaded
    uploading,       \* ResumePage: upload in flight
    screening,       \* ResumePage: screening run in flight
    selectedFile,    \* ResumePage: null or the name of the chosen file
    jobDescription,  \* ResumePage: text of the job description box
    screenResults,   \* ResumePage: results of the last screening run
    displayResults,  \* ResumePage: the list computed by the last render
    renderPending,   \* ResumePage: state was set and the render has not run
    calls,           \* ResumePage: requests dispatched and not yet answered
    nextCall,        \* ResumePage: number of requests dispatched so far
    lastRun,         \* results received by the last successful screening run
    screenEvent,     \* ResumePage and DocumentsPage: the last step
    documents,       \* DocumentsPage: the list as last loaded
    docType,         \* DocumentsPage: the selected document type
    lastRefresh      \* id of the list request issued last, and its response

conversationVars ==
    <<page, sessionId, messages, input, loading, sessionStarted,
      candidateName, position, completed, evaluation, net, clock,
      nextReq, hydrations, sends, startOks, startedWith, lastEvent>>

screeningVars ==
    <<resumes, uploading, screening, selectedFile, jobDescription,
      screenResults, displayResults, renderPending, calls, nextCall,
      lastRun, screenEvent, documents, docType, lastRefresh>>

\* state of DocumentsPage that ResumePage does not have
documentsState == <<documents, docType>>

\* the conversational state that a visit to /resume or /documents leaves alone
sessionState ==
    <<sessionId, messages, input, loading, sessionStarted, candidateName,
      position, completed, evaluation, net, clock, nextReq, hydrations,
      sends, startOks, startedWith, lastEvent>>

vars == <<conversationVars, screeningVars>>

pageState == <<messages, input, loading, sessionStarted, candidateName,
               position, completed, evaluation>>

ghosts == <<hydrations, sends, startOks, startedWith>>

\* A step that ends no request
NoRequest == [len0 |-> 0, message |-> Absent]

\* op: the operation and its outcome; toast: the notification it raised;
\* len0, message: the transcript length when the request the step ended was
\* dispatched, and the message that request carried
Event(op, toast, req) ==
    [op |-> op, toast |-> toast, len0 |-> req.len0, message |-> req.message]

\* useState initial values of ChatPage and InterviewPage
FreshPageState ==
    /\ messages' = <<>>
    /\ input' = <<>>
    /\ loading' = FALSE
    /\ sessionStarted' = FALSE
    /\ candidateName' = <<>>
    /\ position' = <<>>
    /\ completed' = FALSE
    /\ evaluation' = Absent

FreshGhosts ==
    /\ hydrations' = 0
    /\ sends' = 0
    /\ startOks' = 0
    /\ startedWith' = Absent

\* ResumePage is not mounted: its state does not exist and nothing of it is
\* in flight
ResumePageUnmounted ==
    /\ resumes = <<>>
    /\ uploading = FALSE
    /\ screening = FALSE
    /\ selectedFile = Absent
    /\ jobDescription = <<>>
    /\ screenResults = <<>>
    /\ displayResults = <<>>
    /\ renderPending = FALSE
    /\ calls = {}
    /\ nextCall = 0
    /\ lastRun = Absent
    /\ screenEvent = [op |-> "unmounted", toast |-> "none"]
    /\ documents = <<>>
    /\ docType = "hr"
    /\ lastRefresh = [id |-> 0, response |-> Absent]

Init ==
    /\ page = "home"
    /\ sessionId = 0
    /\ messages = <<>>
    /\ input = <<>>
    /\ loading = FALSE
    /\ sessionStarted = FALSE
    /\ candidateName = <<>>
    /\ position = <<>>
    /\ completed = FALSE
    /\ evaluation = Absent
    /\ net = {}
    /\ clock = 0
    /\ nextReq = 0
    /\ hydrations = 0
    /\ sends = 0
    /\ startOks = 0
    /\ startedWith = Absent
    /\ lastEvent = Event("init", "none", NoRequest)
    /\ ResumePageUnmounted

\* faulty variant: a continuation acts on whatever page is mounted
Mounted_Any(r) == TRUE

\* A request of the mounted page's session: its continuation still finds
\* the component mounted.
Mounted(r) == r.session_id = sessionId

\* faulty variant: an id is generated for each request
Request_IdPerRequest(kind, name, pos, msg) ==
    [id |-> nextReq + 1, kind |-> kind, session_id |-> nextReq + 1,
     candidate_name |-> name, position |-> pos, message |-> msg,
     len0 |-> Len(messages)]

Request(kind, name, pos, msg) ==
    [id |-> nextReq + 1, kind |-> kind, session_id |-> sessionId,
     candidate_name |-> name, position |-> pos, message |-> msg,
     len0 |-> Len(messages)]

\* the interview phase of the spec, derived from sessionStarted and completed
phase ==
    IF ~sessionStarted THEN "not-started"
    ELSE IF completed THEN "completed" ELSE "in-progress"

\* ------------------------------------------------------------------------
\* Routing

\* navigate("/"): the mounted page is unmounted and its state discarded
GoHome ==
    /\ UNCHANGED screeningVars
    /\ page \in {"chat", "interview"}
    /\ page' = "home"
    /\ sessionId' = 0
    /\ FreshPageState
    /\ FreshGhosts
    /\ lastEvent' = Event("home", "none", NoRequest)
    /\ UNCHANGED <<net, clock, nextReq>>

\* navigate("/chat"): ChatPage mounts, creates its sessionId and its effect
\* dispatches the history request
OpenChat ==
    /\ UNCHANGED screeningVars
    /\ page = "home"
    /\ clock < MaxSessions
    /\ nextReq < MaxRequests
    /\ page' = "chat"
    /\ clock' = clock + 1
    /\ sessionId' = clock + 1
    /\ FreshPageState
    /\ FreshGhosts
    /\ nextReq' = nextReq + 1
    /\ net' = net \cup {[id |-> nextReq + 1, kind |-> "history",
                         session_id |-> clock + 1, candidate_name |-> Absent,
                         position |-> Absent, message |-> Absent, len0 |-> 0]}
    /\ lastEvent' = Event("open_chat", "none", NoRequest)

\* navigate("/interview"): InterviewPage mounts and creates its sessionId
OpenInterview ==
    /\ UNCHANGED screeningVars
    /\ page = "home"
    /\ clock < MaxSessions
    /\ page' = "interview"
    /\ clock' = clock + 1
    /\ sessionId' = clock + 1
    /\ FreshPageState
    /\ FreshGhosts
    /\ lastEvent' = Event("open_interview", "none", NoRequest)
    /\ UNCHANGED <<net, nextReq>>

\* ------------------------------------------------------------------------
\* ChatPage

\* loadHistory, after the await: success
ChatHistoryLoaded ==
    \E r \in net, h \in HistoryPayloads :
        /\ UNCHANGED screeningVars
        /\ r.kind = "history"
        /\ net' = net \ {r}
        /\ IF Mounted(r) /\ IsPresent(h)
           THEN /\ messages' = Get(h)
                /\ hydrations' = hydrations + 1
                /\ lastEvent' = Event("history_applied", "none", NoRequest)
           ELSE /\ UNCHANGED <<messages, hydrations>>
                /\ lastEvent' = Event("history_ignored", "none", NoRequest)
        /\ UNCHANGED <<page, sessionId, input, loading, sessionStarted,
                       candidateName, position, completed, evaluation, clock,
                       nextReq, sends, startOks, startedWith>>

\* loadHistory, after the await: failure (console.error only)
ChatHistoryFailed ==
    \E r \in net :
        /\ UNCHANGED screeningVars
        /\ r.kind = "history"
        /\ net' = net \ {r}
        /\ lastEvent' = Event("history_failed", "none", NoRequest)
        /\ UNCHANGED <<page, sessionId, pageState, clock, nextReq, ghosts>>

\* onChange of the message box; the box is disabled while loading
ChatSetInput ==
    \E t \in Texts :
        /\ UNCHANGED screeningVars
        /\ page = "chat"
        /\ ~loading
        /\ t # input
        /\ input' = t
        /\ lastEvent' = Event("edit", "none", NoRequest)
        /\ UNCHANGED <<page, sessionId, messages, loading, sessionStarted,
                       candidateName, position, completed, evaluation, net,
                       clock, nextReq, ghosts>>

\* the guard of handleSend: if (!input.trim() || loading) return
ChatSendRejected(inp, ld) == IsBlank(inp) \/ ld

\* faulty variant: handleSend forgets setLoading(true)
ChatSetLoadingOnSend_Forgotten == loading' = loading

\* setLoading(true) of handleSend
ChatSetLoadingOnSend == loading' = TRUE

\* handleSend up to the await
ChatHandleSend ==
    /\ UNCHANGED screeningVars
    /\ page = "chat"
    /\ IF ChatSendRejected(input, loading)
       THEN /\ lastEvent' = Event("chat_send_rejected", "none", NoRequest)
            /\ UNCHANGED <<page, sessionId, pageState, net, clock, nextReq,
                           ghosts>>
       ELSE /\ nextReq < MaxRequests
            /\ input' = <<>>
            /\ messages' = Append(messages, ChatUserTurn(input))
            /\ ChatSetLoadingOnSend
            /\ net' = net \cup {Request("chat", Absent, Absent, Some(input))}
            /\ nextReq' = nextReq + 1
            /\ sends' = sends + 1
            /\ lastEvent' = Event("chat_send", "none",
                                  Request("chat", Absent, Absent, Some(input)))
            /\ UNCHANGED <<page, sessionId, sessionStarted, candidateName,
                           position, completed, evaluation, clock, hydrations,
                           startOks, startedWith>>

\* handleSend after the await: success
ChatReplied ==
    \E r \in net, data \in ChatReplies :
        /\ UNCHANGED screeningVars
        /\ r.kind = "chat"
        /\ net' = net \ {r}
        /\ IF Mounted(r)
           THEN /\ messages' = Append(messages, ChatAssistantTurn(data))
                /\ loading' = FALSE
           ELSE UNCHANGED <<messages, loading>>
        /\ lastEvent' = Event(IF Mounted(r) THEN "chat_ok" ELSE "chat_ok_unmounted",
                              IF data.escalated THEN "warning" ELSE "none",
                              IF Mounted(r) THEN r ELSE NoRequest)
        /\ UNCHANGED <<page, sessionId, input, sessionStarted, candidateName,
                       position, completed, evaluation, clock, nextReq, ghosts>>

\* faulty variant: the catch block rolls the optimistic user turn back
ChatOnFailure_RollsBack(r) ==
    messages' = IF Len(messages) > 0 /\ messages[Len(messages)].role = "user"
                THEN SubSeq(messages, 1, Len(messages) - 1)
                ELSE messages

\* the catch block of handleSend: it leaves the transcript alone
ChatOnFailure(r) == messages' = messages

\* handleSend after the await: failure
ChatFailed ==
    \E r \in net :
        /\ UNCHANGED screeningVars
        /\ r.kind = "chat"
        /\ net' = net \ {r}
        /\ IF Mounted(r)
           THEN /\ ChatOnFailure(r)
                /\ loading' = FALSE
           ELSE UNCHANGED <<messages, loading>>
        /\ lastEvent' = Event(IF Mounted(r) THEN "chat_failed" ELSE "chat_failed_unmounted",
                              "error", IF Mounted(r) THEN r ELSE NoRequest)
        /\ UNCHANGED <<page, sessionId, input, sessionStarted, candidateName,
                       position, completed, evaluation, clock, nextReq, ghosts>>

\* ------------------------------------------------------------------------
\* InterviewPage

\* the start form is rendered while !sessionStarted; its fields stay
\* editable while a start call is pending
InterviewSetCandidateName ==
    \E t \in Texts :
        /\ UNCHANGED screeningVars
        /\ page = "interview"
        /\ ~sessionStarted
        /\ t # candidateName
        /\ candidateName' = t
        /\ lastEvent' = Event("edit", "none", NoRequest)
        /\ UNCHANGED <<page, sessionId, messages, input, loading,
                       sessionStarted, position, completed, evaluation, net,
                       clock, nextReq, ghosts>>

InterviewSetPosition ==
    \E t \in Positions :
        /\ UNCHANGED screeningVars
        /\ page = "interview"
        /\ ~sessionStarted
        /\ t # position
        /\ position' = t
        /\ lastEvent' = Event("edit", "none", NoRequest)
        /\ UNCHANGED <<page, sessionId, messages, input, loading,
                       sessionStarted, candidateName, completed, evaluation,
                       net, clock, nextReq, ghosts>>

\* faulty variant: the start form is rendered whatever sessionStarted is
StartButtonEnabled_AlwaysRendered == ~loading

\* faulty variant: the start button is not disabled while loading
StartButtonEnabled_NeverDisabled == ~sessionStarted

\* the start button: rendered while !sessionStarted, disabled while loading
StartButtonEnabled == ~sessionStarted /\ ~loading

\* faulty variant: the position is not validated
StartInvalid_NameOnly == IsBlank(candidateName)

\* the validation of startInterview
StartInvalid == IsBlank(candidateName) \/ IsBlank(position)

\* startInterview up to the await
StartInterview ==
    /\ UNCHANGED screeningVars
    /\ page = "interview"
    /\ IF ~StartButtonEnabled
       THEN /\ lastEvent' = Event("start_unavailable", "none", NoRequest)
            /\ UNCHANGED <<page, sessionId, pageState, net, clock, nextReq,
                           ghosts>>
       ELSE IF StartInvalid
       THEN /\ lastEvent' = Event("start_invalid", "error", NoRequest)
            /\ UNCHANGED <<page, sessionId, pageState, net, clock, nextReq,
                           ghosts>>
       ELSE /\ nextReq < MaxRequests
            /\ loading' = TRUE
            /\ net' = net \cup {Request("start", Some(candidateName),
                                        Some(position), Absent)}
            /\ nextReq' = nextReq + 1
            /\ lastEvent' = Event("start_sent", "none",
                                  Request("start", Some(candidateName),
                                          Some(position), Absent))
            /\ UNCHANGED <<page, sessionId, messages, input, sessionStarted,
                           candidateName, position, completed, evaluation,
                           clock, ghosts>>

\* startInterview after the await: success
StartReplied ==
    \E r \in net, data \in InterviewReplies :
        /\ UNCHANGED screeningVars
        /\ r.kind = "start"
        /\ net' = net \ {r}
        /\ IF Mounted(r)
           THEN /\ messages' = <<InterviewAssistantTurn(data)>>
                /\ sessionStarted' = TRUE
                /\ loading' = FALSE
                /\ startOks' = startOks + 1
                /\ startedWith' = Some([candidate_name |-> r.candidate_name,
                                        position |-> r.position])
                /\ lastEvent' = Event("start_ok", "none", r)
           ELSE /\ UNCHANGED <<messages, sessionStarted, loading, startOks,
                               startedWith>>
                /\ lastEvent' = Event("start_ok_unmounted", "none", NoRequest)
        /\ UNCHANGED <<page, sessionId, input, candidateName, position,
                       completed, evaluation, clock, nextReq, hydrations,
                       sends>>

\* faulty variant: startInterview has no finally block
StartFailed_NoFinally ==
    \E r \in net :
        /\ UNCHANGED screeningVars
        /\ r.kind = "start"
        /\ net' = net \ {r}
        /\ lastEvent' = IF Mounted(r)
                        THEN Event("start_failed", "error", r)
                        ELSE Event("start_failed_unmounted", "error", NoRequest)
        /\ UNCHANGED <<page, sessionId, messages, input, loading,
                       sessionStarted, candidateName, position, completed,
                       evaluation, clock, nextReq, ghosts>>

\* startInterview after the await: failure
StartFailed ==
    \E r \in net :
        /\ UNCHANGED screeningVars
        /\ r.kind = "start"
        /\ net' = net \ {r}
        /\ IF Mounted(r)
           THEN /\ loading' = FALSE
                /\ lastEvent' = Event("start_failed", "error", r)
           ELSE /\ UNCHANGED loading
                /\ lastEvent' = Event("start_failed_unmounted", "error", NoRequest)
        /\ UNCHANGED <<page, sessionId, messages, input, sessionStarted,
                       candidateName, position, completed, evaluation, clock,
                       nextReq, ghosts>>

\* faulty variant: the answer box is rendered before the interview starts
AnswerInputEnabled_BeforeStart == ~completed /\ ~loading

\* the answer box: rendered once sessionStarted and while !completed,
\* disabled while loading
AnswerInputEnabled == sessionStarted /\ ~completed /\ ~loading

\* onChange of the answer box
InterviewSetInput ==
    \E t \in Texts :
        /\ UNCHANGED screeningVars
        /\ page = "interview"
        /\ AnswerInputEnabled
        /\ t # input
        /\ input' = t
        /\ lastEvent' = Event("edit", "none", NoRequest)
        /\ UNCHANGED <<page, sessionId, messages, loading, sessionStarted,
                       candidateName, position, completed, evaluation, net,
                       clock, nextReq, ghosts>>

\* the guard of handleSend
InterviewSendRejected == IsBlank(input) \/ loading \/ completed

\* faulty variant: handleSend forgets setLoading(true)
InterviewSetLoadingOnSend_Forgotten == loading' = loading

\* setLoading(true) of handleSend
InterviewSetLoadingOnSend == loading' = TRUE

\* handleSend up to the await
InterviewHandleSend ==
    /\ UNCHANGED screeningVars
    /\ page = "interview"
    /\ IF ~AnswerInputEnabled \/ InterviewSendRejected
       THEN /\ lastEvent' = Event("answer_rejected", "none", NoRequest)
            /\ UNCHANGED <<page, sessionId, pageState, net, clock, nextReq,
                           ghosts>>
       ELSE /\ nextReq < MaxRequests
            /\ input' = <<>>
            /\ messages' = Append(messages, InterviewUserTurn(input))
            /\ InterviewSetLoadingOnSend
            /\ net' = net \cup {Request("answer", Some(candidateName),
                                        Some(position), Some(input))}
            /\ nextReq' = nextReq + 1
            /\ sends' = sends + 1
            /\ lastEvent' = Event("answer_sent", "none",
                                  Request("answer", Some(candidateName),
                                          Some(position), Some(input)))
            /\ UNCHANGED <<page, sessionId, sessionStarted, candidateName,
                           position, completed, evaluation, clock, hydrations,
                           startOks, startedWith>>

\* faulty variant: every answer response completes the interview
InterviewOnCompleted_Unconditional(data) ==
    /\ completed' = TRUE
    /\ evaluation' = Some([score |-> data.score, feedback |-> data.response])

\* faulty variant: the evaluation is stored without the score
InterviewOnCompleted_DropsScore(data) ==
    IF Truthy(data.completed)
    THEN /\ completed' = TRUE
         /\ evaluation' = Some([score |-> Absent, feedback |-> data.response])
    ELSE UNCHANGED <<completed, evaluation>>

\* the completion branch of handleSend: if (response.data.completed) {...}
InterviewOnCompleted(data) ==
    IF Truthy(data.completed)
    THEN /\ completed' = TRUE
         /\ evaluation' = Some([score |-> data.score, feedback |-> data.response])
    ELSE UNCHANGED <<completed, evaluation>>

\* handleSend after the await: success
AnswerReplied ==
    \E r \in net, data \in InterviewReplies :
        /\ UNCHANGED screeningVars
        /\ r.kind = "answer"
        /\ net' = net \ {r}
        /\ IF Mounted(r)
           THEN /\ messages' = Append(messages, InterviewAssistantTurn(data))
                /\ InterviewOnCompleted(data)
                /\ loading' = FALSE
                /\ lastEvent' = Event("answer_ok",
                                      IF Truthy(data.completed) THEN "success" ELSE "none", r)
           ELSE /\ UNCHANGED <<messages, completed, evaluation, loading>>
                /\ lastEvent' = Event("answer_ok_unmounted",
                                      IF Truthy(data.completed) THEN "success" ELSE "none",
                                      NoRequest)
        /\ UNCHANGED <<page, sessionId, input, sessionStarted, candidateName,
                       position, clock, nextReq, ghosts>>

\* handleSend after the await: failure
AnswerFailed ==
    \E r \in net :
        /\ UNCHANGED screeningVars
        /\ r.kind = "answer"
        /\ net' = net \ {r}
        /\ IF Mounted(r)
           THEN /\ loading' = FALSE
                /\ lastEvent' = Event("answer_failed", "error", r)
           ELSE /\ UNCHANGED loading
                /\ lastEvent' = Event("answer_failed_unmounted", "error", NoRequest)
        /\ UNCHANGED <<page, sessionId, messages, input, sessionStarted,
                       candidateName, position, completed, evaluation, clock,
                       nextReq, ghosts>>

\* ------------------------------------------------------------------------

NextChat ==
    \/ ChatHistoryLoaded
    \/ ChatHistoryFailed
    \/ ChatSetInput
    \/ ChatHandleSend
    \/ ChatReplied
    \/ ChatFailed

NextInterview ==
    \/ InterviewSetCandidateName
    \/ InterviewSetPosition
    \/ StartInterview
    \/ StartReplied
    \/ StartFailed
    \/ InterviewSetInput
    \/ InterviewHandleSend
    \/ AnswerReplied
    \/ AnswerFailed

Next ==
    \/ GoHome
    \/ OpenChat
    \/ OpenInterview
    \/ NextChat
    \/ NextInterview

Spec == Init /\ [][Next]_vars

\* ------------------------------------------------------------------------
\* ResumePage: values

\* file names offered by the file chooser, as character sequences
Pdf == <<".", "p", "d", "f">>
Docx == <<".", "d", "o", "c", "x">>
FileNames == {<<"a">> \o Pdf, <<"b">> \o Docx, <<"p", "d", "f">>}

\* String.prototype.endsWith
EndsWith(s, suffix) ==
    /\ Len(suffix) <= Len(s)
    /\ SubSeq(s, Len(s) - Len(suffix) + 1, Len(s)) = suffix

\* faulty variant: the extension is not checked
SupportedFile_Any(name) == TRUE

SupportedFile(name) == EndsWith(name, Pdf) \/ EndsWith(name, Docx)

\* an item of the catalog; score is absent for a resume never screened
CatalogItem(id, score) == [id |-> id, score |-> score]

\* an item of a screening run
ScreenResult(id, score) == [resume_id |-> id, score |-> Some(score)]

\* response.data of GET /resumes
CatalogPayloads ==
    {[resumes |-> Absent],
     [resumes |-> Some(<<>>)],
     [resumes |-> Some(<<CatalogItem("r1", Absent), CatalogItem("r2", Some(0)),
                         CatalogItem("r3", Some(55))>>)],
     [resumes |-> Some(<<CatalogItem("r2", Some(74)),
                         CatalogItem("r1", Some(91))>>)]}

\* response.data of POST /screen-resumes
ScreenPayloads ==
    {[results |-> Absent],
     [results |-> Some(<<>>)],
     [results |-> Some(<<ScreenResult("r1", 91), ScreenResult("r2", 74)>>)],
     [results |-> Some(<<ScreenResult("r2", 80)>>)]}

\* x || []
OrEmpty(o) == IF IsPresent(o) THEN Get(o) ELSE <<>>

\* truthiness of r.score: undefined and 0 are falsy
ScoreTruthy(score) == IsPresent(score) /\ Get(score) # 0

\* faulty variant: the scored catalog items win over the run
DisplayResults_CatalogFirst(sr, rs) ==
    IF Len(SelectSeq(rs, LAMBDA r : ScoreTruthy(r.score))) > 0
    THEN SelectSeq(rs, LAMBDA r : ScoreTruthy(r.score))
    ELSE sr

\* const displayResults = screenResults.length > 0 ? screenResults
\*                                                 : resumes.filter(r => r.score)
DisplayResults(sr, rs) ==
    IF Len(sr) > 0 THEN sr ELSE SelectSeq(rs, LAMBDA r : ScoreTruthy(r.score))

\* ------------------------------------------------------------------------
\* ResumePage: state after the page has mounted and rendered once; the mount
\* effect has dispatched the first catalog request

InitScreening ==
    /\ page = "resume"
    /\ sessionId = 0
    /\ messages = <<>>
    /\ input = <<>>
    /\ loading = FALSE
    /\ sessionStarted = FALSE
    /\ candidateName = <<>>
    /\ position = <<>>
    /\ completed = FALSE
    /\ evaluation = Absent
    /\ net = {}
    /\ clock = 0
    /\ nextReq = 0
    /\ hydrations = 0
    /\ sends = 0
    /\ startOks = 0
    /\ startedWith = Absent
    /\ lastEvent = Event("init", "none", NoRequest)
    /\ resumes = <<>>
    /\ uploading = FALSE
    /\ screening = FALSE
    /\ selectedFile = Absent
    /\ jobDescription = <<>>
    /\ screenResults = <<>>
    /\ displayResults = <<>>
    /\ renderPending = FALSE
    /\ calls = {[id |-> 1, kind |-> "list", file |-> Absent,
                 job_description |-> Absent]}
    /\ nextCall = 1
    /\ lastRun = Absent
    /\ screenEvent = [op |-> "mount", toast |-> "none"]
    /\ documents = <<>>
    /\ docType = "hr"
    /\ lastRefresh = [id |-> 1, response |-> Absent]

ResumeRequest(kind, file, jd) ==
    [id |-> nextCall + 1, kind |-> kind, file |-> file, job_description |-> jd]

\* loadResumes(), up to the await, with the requests still pending
LoadResumes(pending) ==
    /\ nextCall' = nextCall + 1
    /\ calls' = pending \cup {ResumeRequest("list", Absent, Absent)}
    /\ lastRefresh' = [id |-> nextCall + 1, response |-> Absent]

\* an upload or a screening run can be dispatched: MaxCalls leaves room for
\* it, for the catalog refresh that follows it and for the refresh that
\* follows every upload and screening run still pending
CanDispatch ==
    nextCall + Cardinality({c \in calls :
                               c.kind \in {"upload", "screen", "doc_upload"}})
             + 2 <= MaxCalls

\* ------------------------------------------------------------------------
\* ResumePage: handlers. Each handler runs on the state of the last render.

\* navigate("/") and on to /resume: the mounted page is unmounted, its state
\* is discarded, the responses still pending find no component, and the new
\* page's mount effect dispatches a catalog request
OpenResumePage ==
    /\ UNCHANGED sessionState
    /\ page \in {"resume", "documents"}
    /\ page' = "resume"
    /\ documents' = <<>>
    /\ docType' = "hr"
    /\ ~renderPending
    /\ nextCall < MaxCalls
    /\ resumes' = <<>>
    /\ uploading' = FALSE
    /\ screening' = FALSE
    /\ selectedFile' = Absent
    /\ jobDescription' = <<>>
    /\ screenResults' = <<>>
    /\ displayResults' = <<>>
    /\ renderPending' = FALSE
    /\ LoadResumes({})
    /\ lastRun' = Absent
    /\ screenEvent' = [op |-> "mount", toast |-> "none"]

\* loadResumes, after the await: success
ResumesLoaded ==
    \E c \in calls, data \in CatalogPayloads :
        /\ UNCHANGED conversationVars
        /\ page = "resume"
        /\ UNCHANGED documentsState
        /\ ~renderPending
        /\ c.kind = "list"
        /\ calls' = calls \ {c}
        /\ resumes' = OrEmpty(data.resumes)
        /\ lastRefresh' = IF c.id = lastRefresh.id
                          THEN [lastRefresh EXCEPT
                                  !.response = Some(OrEmpty(data.resumes))]
                          ELSE lastRefresh
        /\ renderPending' = TRUE
        /\ screenEvent' = [op |-> "list_ok", toast |-> "none"]
        /\ UNCHANGED <<uploading, screening, selectedFile, jobDescription,
                       screenResults, displayResults, nextCall, lastRun>>

\* loadResumes, after the await: failure
ResumesLoadFailed ==
    \E c \in calls :
        /\ UNCHANGED conversationVars
        /\ page = "resume"
        /\ UNCHANGED documentsState
        /\ UNCHANGED lastRefresh
        /\ ~renderPending
        /\ c.kind = "list"
        /\ calls' = calls \ {c}
        /\ screenEvent' = [op |-> "list_failed", toast |-> "error"]
        /\ UNCHANGED <<resumes, uploading, screening, selectedFile,
                       jobDescription, screenResults, displayResults,
                       renderPending, nextCall, lastRun>>

\* faulty variant: a file with an unsupported extension clears the selection
HandleFileChange_ClearsOnReject ==
    \E f \in {Absent} \cup {Some(n) : n \in FileNames} :
        /\ UNCHANGED conversationVars
        /\ page = "resume"
        /\ UNCHANGED documentsState
        /\ UNCHANGED lastRefresh
        /\ ~renderPending
        /\ IF IsPresent(f) /\ SupportedFile(Get(f))
           THEN /\ selectedFile' = f
                /\ renderPending' = TRUE
                /\ screenEvent' = [op |-> "file_selected", toast |-> "none"]
           ELSE IF IsPresent(f)
           THEN /\ selectedFile' = Absent
                /\ renderPending' = IsPresent(selectedFile)
                /\ screenEvent' = [op |-> "file_rejected", toast |-> "error"]
           ELSE /\ UNCHANGED <<selectedFile, renderPending>>
                /\ screenEvent' = [op |-> "file_cancelled", toast |-> "none"]
        /\ UNCHANGED <<resumes, uploading, screening, jobDescription,
                       screenResults, displayResults, calls, nextCall,
                       lastRun>>

\* handleFileChange: f is e.target.files[0], absent when the chooser is
\* cancelled
HandleFileChange ==
    \E f \in {Absent} \cup {Some(n) : n \in FileNames} :
        /\ UNCHANGED conversationVars
        /\ page = "resume"
        /\ UNCHANGED documentsState
        /\ UNCHANGED lastRefresh
        /\ ~renderPending
        /\ IF IsPresent(f) /\ SupportedFile(Get(f))
           THEN /\ selectedFile' = f
                /\ renderPending' = TRUE
                /\ screenEvent' = [op |-> "file_selected", toast |-> "none"]
           ELSE /\ UNCHANGED <<selectedFile, renderPending>>
                /\ screenEvent' =
                       IF IsPresent(f)
                       THEN [op |-> "file_rejected", toast |-> "error"]
                       ELSE [op |-> "file_cancelled", toast |-> "none"]
        /\ UNCHANGED <<resumes, uploading, screening, jobDescription,
                       screenResults, displayResults, calls, nextCall,
                       lastRun>>

\* faulty variant: the upload button stays enabled while an upload is pending
UploadButtonEnabled_WhileUploading == IsPresent(selectedFile)

\* the upload button: disabled={uploading || !selectedFile}
UploadButtonEnabled == ~uploading /\ IsPresent(selectedFile)

\* a click on the upload button and handleUpload up to the await
HandleUpload ==
    /\ UNCHANGED conversationVars
    /\ page = "resume"
    /\ UNCHANGED documentsState
    /\ UNCHANGED lastRefresh
    /\ ~renderPending
    /\ IF ~UploadButtonEnabled
       THEN /\ screenEvent' = [op |-> "upload_unavailable", toast |-> "none"]
            /\ UNCHANGED <<uploading, calls, nextCall, renderPending>>
       ELSE IF ~IsPresent(selectedFile)
       THEN /\ screenEvent' = [op |-> "upload_invalid", toast |-> "error"]
            /\ UNCHANGED <<uploading, calls, nextCall, renderPending>>
       ELSE /\ CanDispatch
            /\ uploading' = TRUE
            /\ nextCall' = nextCall + 1
            /\ calls' = calls \cup {ResumeRequest("upload", selectedFile,
                                                  Absent)}
            /\ renderPending' = TRUE
            /\ screenEvent' = [op |-> "upload_sent", toast |-> "none"]
    /\ UNCHANGED <<resumes, screening, selectedFile, jobDescription,
                   screenResults, displayResults, lastRun>>

\* handleUpload, after the await: success, then finally
UploadReplied ==
    \E c \in calls :
        /\ UNCHANGED conversationVars
        /\ page = "resume"
        /\ UNCHANGED documentsState
        /\ ~renderPending
        /\ c.kind = "upload"
        /\ selectedFile' = Absent
        /\ LoadResumes(calls \ {c})
        /\ uploading' = FALSE
        /\ renderPending' = TRUE
        /\ screenEvent' = [op |-> "upload_ok", toast |-> "success"]
        /\ UNCHANGED <<resumes, screening, jobDescription, screenResults,
                       displayResults, lastRun>>

\* handleUpload, after the await: failure, then finally
UploadFailed ==
    \E c \in calls :
        /\ UNCHANGED conversationVars
        /\ page = "resume"
        /\ UNCHANGED documentsState
        /\ UNCHANGED lastRefresh
        /\ ~renderPending
        /\ c.kind = "upload"
        /\ calls' = calls \ {c}
        /\ uploading' = FALSE
        /\ renderPending' = TRUE
        /\ screenEvent' = [op |-> "upload_failed", toast |-> "error"]
        /\ UNCHANGED <<resumes, screening, selectedFile, jobDescription,
                       screenResults, displayResults, nextCall, lastRun>>

\* onChange of the job description box
SetJobDescription ==
    \E t \in Texts :
        /\ UNCHANGED conversationVars
        /\ page = "resume"
        /\ UNCHANGED documentsState
        /\ UNCHANGED lastRefresh
        /\ ~renderPending
        /\ jobDescription' = t
        /\ renderPending' = TRUE
        /\ screenEvent' = [op |-> "jd_edit", toast |-> "none"]
        /\ UNCHANGED <<resumes, uploading, screening, selectedFile,
                       screenResults, displayResults, calls, nextCall,
                       lastRun>>

\* the screen button:
\* disabled={screening || !jobDescription.trim() || resumes.length === 0}
ScreenButtonEnabled ==
    ~screening /\ ~IsBlank(jobDescription) /\ Len(resumes) # 0

\* faulty variant: the button is disabled only while screening and the
\* handler validates nothing
HandleScreenResumes_Unchecked ==
    /\ UNCHANGED conversationVars
    /\ page = "resume"
    /\ UNCHANGED documentsState
    /\ UNCHANGED lastRefresh
    /\ ~renderPending
    /\ IF screening
       THEN /\ screenEvent' = [op |-> "screen_unavailable", toast |-> "none"]
            /\ UNCHANGED <<screening, calls, nextCall, renderPending>>
       ELSE /\ CanDispatch
            /\ screening' = TRUE
            /\ nextCall' = nextCall + 1
            /\ calls' = calls \cup {ResumeRequest("screen", Absent,
                                                  Some(jobDescription))}
            /\ renderPending' = TRUE
            /\ screenEvent' = [op |-> "screen_sent", toast |-> "none"]
    /\ UNCHANGED <<resumes, uploading, selectedFile, jobDescription,
                   screenResults, displayResults, lastRun>>

\* a click on the screen button and handleScreenResumes up to the await
HandleScreenResumes ==
    /\ UNCHANGED conversationVars
    /\ page = "resume"
    /\ UNCHANGED documentsState
    /\ UNCHANGED lastRefresh
    /\ ~renderPending
    /\ IF ~ScreenButtonEnabled
       THEN /\ screenEvent' = [op |-> "screen_unavailable", toast |-> "none"]
            /\ UNCHANGED <<screening, calls, nextCall, renderPending>>
       ELSE IF IsBlank(jobDescription) \/ Len(resumes) = 0
       THEN /\ screenEvent' = [op |-> "screen_invalid", toast |-> "error"]
            /\ UNCHANGED <<screening, calls, nextCall, renderPending>>
       ELSE /\ CanDispatch
            /\ screening' = TRUE
            /\ nextCall' = nextCall + 1
            /\ calls' = calls \cup {ResumeRequest("screen", Absent,
                                                  Some(jobDescription))}
            /\ renderPending' = TRUE
            /\ screenEvent' = [op |-> "screen_sent", toast |-> "none"]
    /\ UNCHANGED <<resumes, uploading, selectedFile, jobDescription,
                   screenResults, displayResults, lastRun>>

\* faulty variant: the new results are added to the stored ones
SetScreenResults_Accumulates(data) ==
    screenResults' = screenResults \o OrEmpty(data.results)

\* setScreenResults(response.data.results || [])
SetScreenResults(data) == screenResults' = OrEmpty(data.results)

\* handleScreenResumes, after the await: success, then finally
ScreenReplied ==
    \E c \in calls, data \in ScreenPayloads :
        /\ UNCHANGED conversationVars
        /\ page = "resume"
        /\ UNCHANGED documentsState
        /\ ~renderPending
        /\ c.kind = "screen"
        /\ SetScreenResults(data)
        /\ lastRun' = Some(OrEmpty(data.results))
        /\ LoadResumes(calls \ {c})
        /\ screening' = FALSE
        /\ renderPending' = TRUE
        /\ screenEvent' = [op |-> "screen_ok", toast |-> "success"]
        /\ UNCHANGED <<resumes, uploading, selectedFile, jobDescription,
                       displayResults>>

\* faulty variant: the catch block discards the results of the last run
ScreenOnFailure_ClearsResults == screenResults' = <<>>

\* the catch block of handleScreenResumes: it leaves the results alone
ScreenOnFailure == screenResults' = screenResults

\* handleScreenResumes, after the await: failure, then finally
ScreenFailed ==
    \E c \in calls :
        /\ UNCHANGED conversationVars
        /\ page = "resume"
        /\ UNCHANGED documentsState
        /\ UNCHANGED lastRefresh
        /\ ~renderPending
        /\ c.kind = "screen"
        /\ calls' = calls \ {c}
        /\ screening' = FALSE
        /\ renderPending' = TRUE
        /\ ScreenOnFailure
        /\ screenEvent' = [op |-> "screen_failed", toast |-> "error"]
        /\ UNCHANGED <<resumes, uploading, selectedFile, jobDescription,
                       displayResults, nextCall, lastRun>>

\* faulty variant: the catalog is filtered in place
RenderSources_FilteredInPlace ==
    /\ resumes' = SelectSeq(resumes, LAMBDA r : ScoreTruthy(r.score))
    /\ screenResults' = screenResults

\* the render reads screenResults and resumes; Array.prototype.filter returns
\* a new array
RenderSources == resumes' = resumes /\ screenResults' = screenResults

\* the render that follows a state update: the component function computes
\* displayResults from the state
Render ==
    /\ UNCHANGED conversationVars
    /\ page = "resume"
    /\ UNCHANGED documentsState
    /\ UNCHANGED lastRefresh
    /\ renderPending
    /\ renderPending' = FALSE
    /\ displayResults' = DisplayResults(screenResults, resumes)
    /\ RenderSources
    /\ screenEvent' = [op |-> "render", toast |-> "none"]
    /\ UNCHANGED <<uploading, screening, selectedFile, jobDescription, calls,
                   nextCall, lastRun>>

\* ------------------------------------------------------------------------
\* DocumentsPage. Its uploading and selectedFile are the variables of the
\* same names; nothing is derived from its state while rendering.

\* the values of the document type select
DocTypes == {"hr", "policy", "general"}

\* response.data of GET /documents
DocumentPayloads ==
    {[documents |-> Absent],
     [documents |-> Some(<<[id |-> "d1"]>>)],
     [documents |-> Some(<<[id |-> "d2"], [id |-> "d1"]>>)]}

DocumentRequest(kind, file, type) ==
    [id |-> nextCall + 1, kind |-> kind, file |-> file, doc_type |-> type]

\* loadDocuments(), up to the await, with the requests still pending
LoadDocuments(pending) ==
    /\ nextCall' = nextCall + 1
    /\ calls' = pending \cup {DocumentRequest("doc_list", Absent, Absent)}
    /\ lastRefresh' = [id |-> nextCall + 1, response |-> Absent]

\* navigate("/") and on to /documents: as OpenResumePage, and the mount
\* effect of DocumentsPage dispatches a list request
OpenDocumentsPage ==
    /\ UNCHANGED sessionState
    /\ page \in {"resume", "documents"}
    /\ page' = "documents"
    /\ ~renderPending
    /\ nextCall < MaxCalls
    /\ documents' = <<>>
    /\ docType' = "hr"
    /\ resumes' = <<>>
    /\ uploading' = FALSE
    /\ screening' = FALSE
    /\ selectedFile' = Absent
    /\ jobDescription' = <<>>
    /\ screenResults' = <<>>
    /\ displayResults' = <<>>
    /\ renderPending' = FALSE
    /\ LoadDocuments({})
    /\ lastRun' = Absent
    /\ screenEvent' = [op |-> "mount", toast |-> "none"]

\* state of ResumePage that DocumentsPage does not have
resumeState ==
    <<resumes, screening, jobDescription, screenResults, displayResults,
      renderPending, lastRun>>

\* loadDocuments, after the await: success
DocumentsLoaded ==
    \E c \in calls, data \in DocumentPayloads :
        /\ UNCHANGED conversationVars
        /\ UNCHANGED resumeState
        /\ page = "documents"
        /\ c.kind = "doc_list"
        /\ calls' = calls \ {c}
        /\ documents' = OrEmpty(data.documents)
        /\ lastRefresh' = IF c.id = lastRefresh.id
                          THEN [lastRefresh EXCEPT
                                  !.response = Some(OrEmpty(data.documents))]
                          ELSE lastRefresh
        /\ screenEvent' = [op |-> "doc_list_ok", toast |-> "none"]
        /\ UNCHANGED <<uploading, selectedFile, docType, nextCall>>

\* loadDocuments, after the await: failure
DocumentsLoadFailed ==
    \E c \in calls :
        /\ UNCHANGED conversationVars
        /\ UNCHANGED resumeState
        /\ page = "documents"
        /\ c.kind = "doc_list"
        /\ calls' = calls \ {c}
        /\ screenEvent' = [op |-> "doc_list_failed", toast |-> "error"]
        /\ UNCHANGED <<documents, uploading, selectedFile, docType, nextCall,
                       lastRefresh>>

\* onValueChange of the document type select
SetDocType ==
    \E t \in DocTypes :
        /\ UNCHANGED conversationVars
        /\ UNCHANGED resumeState
        /\ page = "documents"
        /\ t # docType
        /\ docType' = t
        /\ screenEvent' = [op |-> "doc_type", toast |-> "none"]
        /\ UNCHANGED <<documents, uploading, selectedFile, calls, nextCall,
                       lastRefresh>>

\* handleFileChange of DocumentsPage
DocHandleFileChange ==
    \E f \in {Absent} \cup {Some(n) : n \in FileNames} :
        /\ UNCHANGED conversationVars
        /\ UNCHANGED resumeState
        /\ page = "documents"
        /\ IF IsPresent(f) /\ SupportedFile(Get(f))
           THEN /\ selectedFile' = f
                /\ screenEvent' = [op |-> "file_selected", toast |-> "none"]
           ELSE /\ UNCHANGED selectedFile
                /\ screenEvent' =
                       IF IsPresent(f)
                       THEN [op |-> "file_rejected", toast |-> "error"]
                       ELSE [op |-> "file_cancelled", toast |-> "none"]
        /\ UNCHANGED <<documents, uploading, docType, calls, nextCall,
                       lastRefresh>>

\* a click on the upload button of DocumentsPage and handleUpload up to the
\* await
DocHandleUpload ==
    /\ UNCHANGED conversationVars
    /\ UNCHANGED resumeState
    /\ page = "documents"
    /\ IF ~UploadButtonEnabled
       THEN /\ screenEvent' = [op |-> "upload_unavailable", toast |-> "none"]
            /\ UNCHANGED <<uploading, calls, nextCall>>
       ELSE IF ~IsPresent(selectedFile)
       THEN /\ screenEvent' = [op |-> "upload_invalid", toast |-> "error"]
            /\ UNCHANGED <<uploading, calls, nextCall>>
       ELSE /\ CanDispatch
            /\ uploading' = TRUE
            /\ nextCall' = nextCall + 1
            /\ calls' = calls \cup {DocumentRequest("doc_upload", selectedFile,
                                                    Some(docType))}
            /\ screenEvent' = [op |-> "upload_sent", toast |-> "none"]
    /\ UNCHANGED <<documents, selectedFile, docType, lastRefresh>>

\* handleUpload of DocumentsPage, after the await: success, then finally
DocUploadReplied ==
    \E c \in calls :
        /\ UNCHANGED conversationVars
        /\ UNCHANGED resumeState
        /\ page = "documents"
        /\ c.kind = "doc_upload"
        /\ selectedFile' = Absent
        /\ LoadDocuments(calls \ {c})
        /\ uploading' = FALSE
        /\ screenEvent' = [op |-> "upload_ok", toast |-> "success"]
        /\ UNCHANGED <<documents, docType>>

\* handleUpload of DocumentsPage, after the await: failure, then finally
DocUploadFailed ==
    \E c \in calls :
        /\ UNCHANGED conversationVars
        /\ UNCHANGED resumeState
        /\ page = "documents"
        /\ c.kind = "doc_upload"
        /\ calls' = calls \ {c}
        /\ uploading' = FALSE
        /\ screenEvent' = [op |-> "upload_failed", toast |-> "error"]
        /\ UNCHANGED <<documents, selectedFile, docType, nextCall,
                       lastRefresh>>

NextDocuments ==
    \/ OpenDocumentsPage
    \/ DocumentsLoaded
    \/ DocumentsLoadFailed
    \/ SetDocType
    \/ DocHandleFileChange
    \/ DocHandleUpload
    \/ DocUploadReplied
    \/ DocUploadFailed

NextScreening ==
    \/ OpenResumePage
    \/ ResumesLoaded
    \/ ResumesLoadFailed
    \/ HandleFileChange
    \/ HandleUpload
    \/ UploadReplied
    \/ UploadFailed
    \/ SetJobDescription
    \/ HandleScreenResumes
    \/ ScreenReplied
    \/ ScreenFailed
    \/ Render
    \/ NextDocuments

SpecScreening == InitScreening /\ [][NextScreening]_vars

\* ------------------------------------------------------------------------
\* Properties

SameSession == sessionId' = sessionId

\* requests of kind k of session s that are outstanding
Outstanding(kinds, s) == {r \in net : r.kind \in kinds /\ r.session_id = s}

Dispatched(kinds) == {r \in net' \ net : r.kind \in kinds}

\* C1: at most one POST /chat is outstanding per session; while one is
\* pending no step dispatches a chat request or appends a user turn, and a
\* rejected send leaves the page state and the network as they were.
C1_ChatSingleInFlight ==
    [][ /\ \A r1, r2 \in net' :
              (r1.kind = "chat" /\ r2.kind = "chat"
                 /\ r1.session_id = r2.session_id) => r1 = r2
        /\ (SameSession /\ Outstanding({"chat"}, sessionId) # {})
              => (Dispatched({"chat"}) = {} /\ sends' = sends)
        /\ lastEvent'.op = "chat_send_rejected"
              => UNCHANGED <<pageState, net, nextReq, sends>> ]_vars

C1_Witness ==
    /\ lastEvent.op = "chat_send_rejected"
    /\ loading
    /\ Outstanding({"chat"}, sessionId) # {}

\* C2: in every step within one session the transcript before the step is a
\* prefix of the transcript after it.
C2_TranscriptAppendOnly ==
    [][ SameSession => IsPrefix(messages, messages') ]_vars

\* C3: the history replaces the transcript at most once per session, no send
\* is accepted while the history load of the session is pending, and no
\* history is applied after a user turn has been appended.
C3_HydrationBeforeInput ==
    /\ hydrations <= 1
    /\ lastEvent.op = "chat_send" => Outstanding({"history"}, sessionId) = {}
    /\ lastEvent.op = "history_applied" => sends = 0

\* C4: the interview phase moves only not-started -> in-progress (by a start
\* response) -> completed (by an answer response that indicates completion);
\* an answer response that does not indicate completion leaves it
\* in-progress, and completed is never left.
C4_PhaseOrder ==
    [][ SameSession =>
          /\ (phase = "not-started" /\ phase' # "not-started")
                => (phase' = "in-progress" /\ lastEvent'.op = "start_ok")
          /\ (phase = "in-progress" /\ phase' # "in-progress")
                => (phase' = "completed" /\ lastEvent'.op = "answer_ok"
                      /\ lastEvent'.toast = "success")
          /\ (lastEvent'.op = "answer_ok" /\ lastEvent'.toast # "success")
                => (phase = "in-progress" /\ phase' = "in-progress")
          /\ phase = "completed" => phase' = "completed" ]_vars

C4_Witness ==
    /\ phase = "in-progress"
    /\ lastEvent.op = "answer_ok"
    /\ lastEvent.toast = "none"

\* finalScore of the spec: evaluation.score
FinalScoreDefined == IsPresent(evaluation) /\ IsPresent(Get(evaluation).score)

\* C5: finalScore is defined if and only if phase = completed, and once
\* defined it never changes.
C5_FinalScoreIffCompleted ==
    [][ /\ FinalScoreDefined' <=> (phase' = "completed")
        /\ (SameSession /\ FinalScoreDefined) => evaluation' = evaluation ]_vars

\* C6: once phase = completed no step of the session appends a turn,
\* dispatches a request or changes the session state.
C6_CompletedIsReadOnly ==
    [][ (SameSession /\ phase = "completed")
          => /\ UNCHANGED <<messages, loading, sessionStarted, completed,
                            evaluation, candidateName, position, sends>>
             /\ net' \subseteq net ]_vars

C6_Witness ==
    /\ phase = "completed"
    /\ lastEvent.op = "answer_rejected"

\* C7: a start request is dispatched only in phase not-started, a start
\* asked for in another phase changes nothing, at most one start response
\* is applied per session, and it is applied to an empty transcript.
C7_StartOnlyOnce ==
    [][ SameSession =>
          /\ Dispatched({"start"}) # {} => phase = "not-started"
          /\ (lastEvent'.op = "start_unavailable")
                => UNCHANGED <<pageState, net, nextReq>>
          /\ startOks' <= 1
          /\ lastEvent'.op = "start_ok" => messages = <<>> ]_vars

C7_Witness ==
    /\ phase # "not-started"
    /\ lastEvent.op = "start_unavailable"
    /\ startOks = 1

\* C8: at most one start or answer request is outstanding per session;
\* while one is pending no step dispatches another or appends a user turn.
C8_InterviewSingleInFlight ==
    [][ /\ \A r1, r2 \in net' :
              (r1.kind \in {"start", "answer"} /\ r2.kind \in {"start", "answer"}
                 /\ r1.session_id = r2.session_id) => r1 = r2
        /\ (SameSession /\ Outstanding({"start", "answer"}, sessionId) # {})
              => (Dispatched({"start", "answer"}) = {} /\ sends' = sends) ]_vars

C8_Witness ==
    /\ lastEvent.op \in {"start_unavailable", "answer_rejected"}
    /\ Outstanding({"start"}, sessionId) # {}

\* C9: the step that handles a failed chat call leaves the transcript as it
\* is (the user turn stays, no assistant turn is added), raises the error
\* toast and clears loading, so that the guard of handleSend passes for any
\* non-blank message.
C9_ChatFailure ==
    [][ lastEvent'.op = "chat_failed"
          => /\ messages' = messages
             /\ lastEvent'.toast = "error"
             /\ ~loading'
             /\ \A t \in Texts : ~IsBlank(t) => ~ChatSendRejected(t, loading') ]_vars

C9_Witness ==
    /\ lastEvent.op = "chat_failed"
    /\ Len(messages) = lastEvent.len0 + 1
    /\ messages[Len(messages)].role = "user"

\* C10: when an exchange completes, the transcript is longer than it was
\* when the exchange was requested by one or two turns if it succeeded and
\* by at most one turn if it failed.
C10_ExchangeLength ==
    /\ lastEvent.op \in {"chat_ok", "start_ok", "answer_ok"}
          => Len(messages) - lastEvent.len0 \in {1, 2}
    /\ lastEvent.op \in {"chat_failed", "start_failed", "answer_failed"}
          => Len(messages) - lastEvent.len0 <= 1

\* C11: when the assistant turn of a chat or interview exchange is appended,
\* it lands right after the user turn of that exchange: the transcript is
\* two turns longer than when the exchange was requested and the turn before
\* the last is the user turn carrying the message of the request.
C11_ExchangeNotInterleaved ==
    lastEvent.op \in {"chat_ok", "answer_ok"}
      => /\ Len(messages) = lastEvent.len0 + 2
         /\ messages[Len(messages)].role = "assistant"
         /\ messages[Len(messages) - 1].role = "user"
         /\ \/ messages[Len(messages) - 1] = [role |-> "user", message |-> Get(lastEvent.message)]
            \/ messages[Len(messages) - 1] = [role |-> "user", content |-> Get(lastEvent.message)]

\* the terminal turn as the page renders it: the last turn once completed
TerminalTurns == IF completed THEN {Len(messages)} ELSE {}

\* C12: an answer response that indicates completion makes the phase
\* completed, stores its score as finalScore and appends its assistant turn
\* as the last turn; from then on the transcript and the evaluation stay as
\* they are, so that turn remains the one terminal turn.
C12_Completion ==
    [][ /\ (lastEvent'.op = "answer_ok" /\ lastEvent'.toast = "success")
              => \E data \in InterviewReplies :
                    /\ Truthy(data.completed)
                    /\ phase' = "completed"
                    /\ IsPresent(evaluation')
                    /\ Get(evaluation').score = data.score
                    /\ messages' = Append(messages, [role |-> "assistant",
                                                     content |-> data.response])
                    /\ TerminalTurns' = {Len(messages')}
        /\ (SameSession /\ completed)
              => /\ messages' = messages
                 /\ evaluation' = evaluation
                 /\ TerminalTurns' = TerminalTurns ]_vars

C12_Witness ==
    /\ phase = "completed"
    /\ lastEvent.op = "answer_ok"
    /\ Get(evaluation).score = Some(82)
    /\ messages[Len(messages)] = [role |-> "assistant", content |-> <<"f">>]

\* C13: every answer request carries the candidate_name and position of the
\* start request that opened its session.
C13_IdentityFixedAtStart ==
    \A r \in net :
        (r.kind = "answer" /\ r.session_id = sessionId)
          => /\ IsPresent(startedWith)
             /\ r.candidate_name = Get(startedWith).candidate_name
             /\ r.position = Get(startedWith).position

\* a text made of white space only (the empty text included)
WhitespaceOnly(s) == \A i \in 1..Len(s) : s[i] = " "

\* C18: while the message box holds an empty or white-space-only text no
\* chat or answer request is dispatched and no user turn is appended, and a
\* rejected send leaves the transcript, the in-flight flag and the network
\* as they were.
C18_BlankMessageRejected ==
    [][ /\ (SameSession /\ WhitespaceOnly(input))
              => (Dispatched({"chat", "answer"}) = {} /\ sends' = sends)
        /\ lastEvent'.op \in {"chat_send_rejected", "answer_rejected"}
              => UNCHANGED <<messages, loading, net, nextReq>> ]_vars

C18_Witness ==
    /\ lastEvent.op \in {"chat_send_rejected", "answer_rejected"}
    /\ input = <<" ">>
    /\ ~loading

\* C19: while the candidate name or the position is empty or white space
\* only no start request is dispatched, and a start refused by the
\* validation raises the error toast and leaves phase, transcript,
\* in-flight flag and network as they were.
C19_StartValidation ==
    [][ /\ (SameSession /\ (WhitespaceOnly(candidateName) \/ WhitespaceOnly(position)))
              => Dispatched({"start"}) = {}
        /\ lastEvent'.op = "start_invalid"
              => /\ lastEvent'.toast = "error"
                 /\ UNCHANGED <<messages, loading, sessionStarted, completed,
                                net, nextReq>> ]_vars

C19_Witness ==
    /\ lastEvent.op = "start_invalid"
    /\ ~WhitespaceOnly(candidateName)
    /\ position = <<" ">>

\* C20: a start response applied in phase not-started gives phase
\* in-progress and a transcript of exactly one turn, the assistant turn with
\* the engine's response; start requests carry no message.
C20_StartSuccess ==
    [][ /\ lastEvent'.op = "start_ok"
              => /\ phase = "not-started"
                 /\ phase' = "in-progress"
                 /\ \E data \in InterviewReplies :
                       messages' = <<[role |-> "assistant", content |-> data.response]>>
        /\ \A r \in net' : r.kind = "start" => r.message = Absent ]_vars

C20_Witness ==
    /\ lastEvent.op = "start_ok"
    /\ phase = "in-progress"
    /\ Len(messages) = 1

\* ------------------------------------------------------------------------
\* Failures, session ids and transcript shape

\* C21: after a failed interview start or answer call the transcript is the
\* one the page held before the operation began (len0 turns; the interview
\* transcript only grows by appends within a session).
C21_InterviewFailureRestores ==
    lastEvent.op \in {"start_failed", "answer_failed"}
      => Len(messages) = lastEvent.len0

\* C25: the session id does not change while the page stays mounted, and
\* every request carries the session id of the page that dispatches it.
C25_SessionIdImmutable ==
    [][ /\ page' = page => sessionId' = sessionId
        /\ \A r \in net' \ net :
              /\ r.session_id = sessionId'
              /\ page' = page => r.session_id = sessionId ]_vars

\* C25 happens: the history request and a chat send of the second session
\* are both outstanding and carry that session's id.
C25_Witness ==
    /\ sessionId = 2
    /\ \E r1, r2 \in net :
          /\ r1.kind = "history" /\ r1.session_id = 2
          /\ r2.kind = "chat" /\ r2.session_id = 2

\* C26: a step that ends a request of another session changes neither the
\* transcript, the phase, the final score nor the in-flight flag of the
\* mounted session.
C26_SessionsIndependent ==
    [][ (\E r \in net \ net' : r.session_id # sessionId)
          => UNCHANGED <<sessionId, messages, sessionStarted, completed,
                         evaluation, loading>> ]_vars

\* C26 happens: the reply to a chat send of a session the user has left
\* arrives while an interview is in progress.
C26_Witness ==
    /\ lastEvent.op = "chat_ok_unmounted"
    /\ page = "interview"
    /\ phase = "in-progress"
    /\ Len(messages) = 1

\* C27: the warning toast is raised by chat replies only, and by exactly
\* those with escalated = true; a send appends one user turn and its reply
\* appends one assistant turn with the engine's response, confidence and
\* escalated, whatever escalated is.
C27_Escalation ==
    [][ /\ lastEvent'.op = "chat_send"
          => messages' = Append(messages,
                 [role |-> "user", message |-> Get(lastEvent'.message)])
        /\ lastEvent'.op = "chat_ok"
          => \E data \in ChatReplies :
                /\ messages' = Append(messages,
                       [role |-> "assistant", message |-> data.response,
                        confidence |-> data.confidence,
                        escalated |-> data.escalated])
                /\ (lastEvent'.toast = "warning") <=> data.escalated
        /\ lastEvent'.toast = "warning"
          => lastEvent'.op \in {"chat_ok", "chat_ok_unmounted"} ]_vars

\* C27 happens: an escalated reply has been appended after its user turn.
C27_Witness ==
    /\ lastEvent.op = "chat_ok"
    /\ lastEvent.toast = "warning"
    /\ Len(messages) >= 2
    /\ messages[Len(messages)].escalated = TRUE
    /\ messages[Len(messages) - 1].role = "user"

\* C28: on the interview page the transcript is empty exactly in phase
\* not-started; the applied start response makes the transcript its opening
\* assistant turn, and the first turn stays as it is for the whole session.
C28_OpeningTurn ==
    [][ /\ page' = "interview"
          => ((messages' = <<>>) <=> (phase' = "not-started"))
        /\ lastEvent'.op = "start_ok"
          => \E data \in InterviewReplies :
                messages' = <<[role |-> "assistant",
                               content |-> data.response]>>
        /\ (SameSession /\ page = "interview" /\ messages # <<>>)
          => /\ messages' # <<>>
             /\ messages'[1] = messages[1]
             /\ messages[1].role = "assistant" ]_vars

\* C28 happens: answers have been exchanged and the opening turn is still
\* the first turn.
C28_Witness ==
    /\ page = "interview"
    /\ phase = "in-progress"
    /\ Len(messages) = 3
    /\ messages[1] = [role |-> "assistant", content |-> <<"q">>]
    /\ lastEvent.op = "answer_ok"

\* C29: the interview transcript alternates roles, starting with assistant.
C29_RolesAlternate ==
    page = "interview"
      => \A i \in 1..Len(messages) :
            messages[i].role = IF i % 2 = 1 THEN "assistant" ELSE "user"

\* ------------------------------------------------------------------------
\* Progress: every dispatched request is answered

\* page visits that came and went before the visit a behaviour of SpecLive
\* follows
IdleVisits == MaxSessions - 1

\* the application at "/" after IdleVisits visits to /interview that
\* dispatched nothing, or opened at /resume
InitLive ==
    \/ /\ page = "home"
       /\ sessionId = 0
       /\ messages = <<>>
       /\ input = <<>>
       /\ loading = FALSE
       /\ sessionStarted = FALSE
       /\ candidateName = <<>>
       /\ position = <<>>
       /\ completed = FALSE
       /\ evaluation = Absent
       /\ net = {}
       /\ clock = IdleVisits
       /\ nextReq = 0
       /\ hydrations = 0
       /\ sends = 0
       /\ startOks = 0
       /\ startedWith = Absent
       /\ lastEvent = Event(IF IdleVisits = 0 THEN "init" ELSE "home", "none",
                            NoRequest)
       /\ ResumePageUnmounted
    \/ InitScreening

NextLive ==
    \/ Next
    \/ NextScreening

\* a response or a failure reaches the continuation that awaits it
Deliver ==
    \/ ChatHistoryLoaded \/ ChatHistoryFailed
    \/ ChatReplied \/ ChatFailed
    \/ StartReplied \/ StartFailed
    \/ AnswerReplied \/ AnswerFailed

DeliverScreening ==
    \/ ResumesLoaded \/ ResumesLoadFailed
    \/ UploadReplied \/ UploadFailed
    \/ ScreenReplied \/ ScreenFailed
    \/ DocumentsLoaded \/ DocumentsLoadFailed
    \/ DocUploadReplied \/ DocUploadFailed

\* the event loop runs every continuation whose request has been answered
\* and React runs every render it has scheduled; a continuation of
\* ResumePage waits for the pending render, hence strong fairness
SpecLive ==
    /\ InitLive
    /\ [][NextLive]_vars
    /\ WF_vars(Deliver)
    /\ SF_vars(DeliverScreening)
    /\ WF_vars(Render)

\* ------------------------------------------------------------------------
\* ResumePage: the displayed list

\* the result list of the most recent successful screening run of the
\* mounted page, empty when there was none
LastScreeningRun == IF IsPresent(lastRun) THEN Get(lastRun) ELSE <<>>

\* s can be obtained from t by deleting elements
RECURSIVE IsSubsequence(_, _)
IsSubsequence(s, t) ==
    IF s = <<>> THEN TRUE
    ELSE IF t = <<>> THEN FALSE
    ELSE IF Head(s) = Head(t) THEN IsSubsequence(Tail(s), Tail(t))
    ELSE IsSubsequence(s, Tail(t))

\* C14: whenever the last screening run is non-empty, the rendered list is
\* exactly that run, element for element in the order received, whatever the
\* catalog holds and in whatever order.
C14_NonEmptyRunDisplayed ==
    (~renderPending /\ LastScreeningRun # <<>>)
      => /\ Len(displayResults) = Len(LastScreeningRun)
         /\ \A i \in 1..Len(displayResults) :
                displayResults[i] = LastScreeningRun[i]

\* C14 happens: the run [r1 91, r2 74] is shown with r1 first while the
\* catalog lists r2 before r1.
C14_Witness ==
    /\ ~renderPending
    /\ lastRun = Some(<<ScreenResult("r1", 91), ScreenResult("r2", 74)>>)
    /\ Len(resumes) = 2
    /\ resumes[1].id = "r2"
    /\ Len(displayResults) = 2
    /\ displayResults[1].resume_id = "r1"
    /\ displayResults[2].resume_id = "r2"

\* C15: whenever the last screening run is empty, the rendered list is
\* exactly the catalog items that have a score, whatever the score, in
\* catalog order.
C15_EmptyRunShowsScoredCatalog ==
    (~renderPending /\ LastScreeningRun = <<>>)
      => displayResults = SelectSeq(resumes, LAMBDA r : IsPresent(r.score))

\* C16: the rendered list is either exactly the result list of the most
\* recent successful screening run or a subsequence of the current catalog.
C16_NeverMixed ==
    ~renderPending
      => \/ IsPresent(lastRun) /\ displayResults = Get(lastRun)
         \/ IsSubsequence(displayResults, resumes)

\* C16 happens: a second screening run has replaced the first one's results
\* while the catalog holds other items.
C16_Witness ==
    /\ ~renderPending
    /\ nextCall = MaxCalls
    /\ screenEvent.op = "render"
    /\ lastRun = Some(<<ScreenResult("r2", 80)>>)
    /\ displayResults = <<ScreenResult("r2", 80)>>
    /\ Len(resumes) = 3

\* C17: the render that computes the displayed list changes neither the last
\* screening run nor the catalog.
C17_RenderIsReadOnly ==
    [][(renderPending /\ ~renderPending')
         => /\ resumes' = resumes
            /\ screenResults' = screenResults
            /\ lastRun' = lastRun]_vars

\* C17 happens: a render has computed a list that leaves catalog items out.
C17_Witness ==
    /\ screenEvent.op = "render"
    /\ screenResults = <<>>
    /\ Len(resumes) = 3
    /\ Len(displayResults) = 1

\* ------------------------------------------------------------------------
\* ResumePage and DocumentsPage: failures, uploads and refreshes

\* C22: a failed screening run leaves the stored results and the catalog as
\* they are; a failed upload leaves the list and the selected file as they
\* are and dispatches nothing; a failed list request leaves the list as it
\* is.
C22_ScreeningFailureFrame ==
    [][ /\ screenEvent'.op = "screen_failed"
          => /\ screenResults' = screenResults
             /\ lastRun' = lastRun
             /\ resumes' = resumes
        /\ screenEvent'.op = "upload_failed"
          => /\ resumes' = resumes
             /\ documents' = documents
             /\ selectedFile' = selectedFile
             /\ calls' \subseteq calls
        /\ screenEvent'.op \in {"list_failed", "doc_list_failed"}
          => /\ resumes' = resumes
             /\ documents' = documents ]_vars

\* C22 happens: a screening run has failed while the results of an earlier
\* run and a catalog are held.
C22_Witness ==
    /\ screenEvent.op = "screen_failed"
    /\ screenResults # <<>>
    /\ resumes # <<>>

\* C24: every upload request carries a file whose name ends in .pdf or
\* .docx, a document upload also a doc_type of the select; an upload asked
\* for while no file is selected and the choice of an unsupported file
\* dispatch nothing.
C24_UploadsAreValidated ==
    [][ /\ \A c \in calls' \ calls :
              c.kind \in {"upload", "doc_upload"}
                => /\ IsPresent(c.file)
                   /\ \/ EndsWith(Get(c.file), <<".", "p", "d", "f">>)
                      \/ EndsWith(Get(c.file), <<".", "d", "o", "c", "x">>)
                   /\ c.file = selectedFile
                   /\ c.kind = "doc_upload"
                        => /\ IsPresent(c.doc_type)
                           /\ Get(c.doc_type) \in {"hr", "policy", "general"}
        /\ (~IsPresent(selectedFile) \/ screenEvent'.op = "file_rejected")
              => {c \in calls' \ calls : c.kind \in {"upload", "doc_upload"}}
                   = {}
        /\ screenEvent'.op = "file_rejected"
              => selectedFile' = selectedFile ]_vars

\* C24 happens: an unsupported file has been refused while a document
\* upload of type policy is on its way.
C24_Witness ==
    /\ screenEvent.op = "file_rejected"
    /\ \E c \in calls :
          /\ c.kind = "doc_upload"
          /\ c.doc_type = Some("policy")
          /\ c.file = Some(<<"b", ".", "d", "o", "c", "x">>)

\* C30: once no catalog request is outstanding, the catalog is the response
\* to the catalog request issued last.
C30_CatalogIsLatestRefresh ==
    (/\ page = "resume"
     /\ {c \in calls : c.kind = "list"} = {}
     /\ IsPresent(lastRefresh.response))
      => resumes = Get(lastRefresh.response)

\* ------------------------------------------------------------------------
\* Progress

\* C23: no in-flight flag stays set for ever (each is false again and again,
\* which is to say that a flag that is set is cleared later), and after a
\* failed send, start, answer, upload or screening run the control of that
\* action is enabled and its handler accepts valid input.
C23_NoFailureIsFatal ==
    /\ []<>~loading
    /\ []<>~uploading
    /\ []<>~screening
    /\ [](lastEvent.op = "chat_failed"
            => ~loading /\ ~(Trim(<<"x">>) = <<>> \/ loading))
    /\ [](lastEvent.op = "start_failed" => ~sessionStarted /\ ~loading)
    /\ [](lastEvent.op = "answer_failed"
            => sessionStarted /\ ~completed /\ ~loading)
    /\ [](screenEvent.op = "upload_failed"
            => ~uploading /\ IsPresent(selectedFile))
    /\ [](screenEvent.op = "screen_failed" => ~screening)

\* C23 happens: an answer has been sent again after the call for it failed
\* (only a failed answer leaves two user turns in a row).
C23_Witness ==
    /\ lastEvent.op = "answer_sent"
    /\ loading
    /\ Len(messages) = 3
    /\ messages[2].role = "user"
    /\ messages[3].role = "user"

\* ------------------------------------------------------------------------
\* ResumePage and DocumentsPage: validation, single flight, file selection

\* C31: a screening request is dispatched only while the job description
\* has a character other than white space and the catalog held by the page is
\* non-empty, and carries that job description; a refused screening action
\* dispatches nothing and changes neither the stored results, the catalog
\* nor the screening flag.
C31_ScreenValidation ==
    [][ /\ \A c \in calls' \ calls :
              c.kind = "screen"
                => /\ ~WhitespaceOnly(jobDescription)
                   /\ Len(resumes) > 0
                   /\ c.job_description = Some(jobDescription)
        /\ screenEvent'.op \in {"screen_unavailable", "screen_invalid"}
              => /\ calls' = calls
                 /\ UNCHANGED <<screenResults, lastRun, resumes,
                                screening>> ]_vars

\* C31 happens: screening has been refused for a job description of white
\* space only while a catalog is held and no run is in flight.
C31_Witness ==
    /\ screenEvent.op = "screen_unavailable"
    /\ ~screening
    /\ Len(resumes) > 0
    /\ jobDescription = <<" ">>

\* the requests of one kind that the mounted page has outstanding
PendingCalls(kind) == {c \in calls : c.kind = kind}

C32_DocumentsWitness ==
    /\ page = "documents"
    /\ screenEvent.op = "upload_unavailable"
    /\ uploading
    /\ Cardinality(PendingCalls("doc_upload")) = 1

\* C33: a rejected file choice and a failed upload leave the selected file
\* as it was, a selected file is given up only by a successful upload (or
\* with the page instance that held it), and the selected file is always
\* absent or a name ending in .pdf or .docx.
C33_FileSelection ==
    [][ /\ screenEvent'.op \in {"file_rejected", "upload_failed"}
              => selectedFile' = selectedFile
        /\ (IsPresent(selectedFile) /\ ~IsPresent(selectedFile'))
              => screenEvent'.op \in {"upload_ok", "mount"}
        /\ IsPresent(selectedFile')
              => \/ EndsWith(Get(selectedFile'), <<".", "p", "d", "f">>)
                 \/ EndsWith(Get(selectedFile'),
                             <<".", "d", "o", "c", "x">>) ]_vars

\* C33 happens: a file without a supported extension has been refused in
\* the screening view while a.pdf stays selected.
C33_Witness ==
    /\ page = "resume"
    /\ screenEvent.op = "file_rejected"
    /\ selectedFile = Some(<<"a", ".", "p", "d", "f">>)

\* C33 happens after a failed upload: the file that was sent is still
\* selected.
C33_FailedUploadWitness ==
    /\ screenEvent.op = "upload_failed"
    /\ IsPresent(selectedFile)
    /\ ~uploading


============================================================================
